---- MODULE Spec2Model ----
(***************************************************************************)
(* Model of the Dereferencer of @json-schema-tools/dereferencer.           *)
(*                                                                         *)
(* Documents live in a heap of JavaScript objects: an object (or array)    *)
(* is an address, a key holds a Boolean, a string, undefined or a          *)
(* reference to another object.  Object identity is address equality.      *)
(***************************************************************************)
EXTENDS Integers, Sequences, FiniteSets, TLC

\* ------------------------------------------------------------------------
\* JavaScript values
\* ------------------------------------------------------------------------
Undefined == [t |-> "undefined", s |-> "", a |-> 0]
Str(x) == [t |-> "string", s |-> x, a |-> 0]
Bool(x) == [t |-> "boolean", s |-> x, a |-> 0]
Ptr(n) == [t |-> "object", s |-> "", a |-> n]
Num(x) == [t |-> "number", s |-> x, a |-> 0]
Null == [t |-> "null", s |-> "", a |-> 0]

IsObj(v) == v.t = "object"
IsBool(v) == v.t = "boolean"

\* an object: its keys in insertion order and the value of each key
EmptyObj == [arr |-> FALSE, keys |-> <<>>, val |-> <<>>]

SeqToSet(q) == {q[j] : j \in 1..Len(q)}

\* F(x) with x evaluated once, before F is applied
With(x, F(_)) == CHOOSE y \in {F(z) : z \in {x}} : TRUE

Contains(q, x) == \E j \in 1..Len(q) : q[j] = x

Has(h, v, k) == IsObj(v) /\ k \in SeqToSet(h[v.a].keys)

Get(h, v, k) == IF Has(h, v, k) THEN h[v.a].val[k] ELSE Undefined

KeysOf(h, v) == IF IsObj(v) THEN h[v.a].keys ELSE <<>>

\* obj[k] = v
Put(h, adr, k, v) ==
    LET n == h[adr]
        ks == IF k \in SeqToSet(n.keys) THEN n.keys ELSE Append(n.keys, k)
    IN  [h EXCEPT ![adr] = [arr |-> n.arr, keys |-> ks,
                            val |-> [x \in SeqToSet(ks) |-> IF x = k THEN v ELSE n.val[x]]]]

\* delete obj[k]
Delete(h, adr, k) ==
    LET n == h[adr]
        ks == SelectSeq(n.keys, LAMBDA x : x # k)
    IN  [h EXCEPT ![adr] = [arr |-> n.arr, keys |-> ks,
                            val |-> [x \in SeqToSet(ks) |-> n.val[x]]]]

\* a new object with the given keys
Alloc(h, ks, vals) ==
    [h |-> Append(h, [arr |-> FALSE, keys |-> ks,
                      val |-> [x \in SeqToSet(ks) |-> vals[x]]]),
     v |-> Ptr(Len(h) + 1)]

\* ------------------------------------------------------------------------
\* The ref strings of the model and the Loader
\* ------------------------------------------------------------------------
SelfRef == "#"
RefA == "#/definitions/a"
RefB == "#/definitions/b"
RefFile == "./f.json"
RefIpfs == "ipfs://1"

\* the refs a document of the caller is made of when no protocol handler
\* is supplied
DocRefs == {SelfRef, RefA, RefB, RefFile}

Refs == DocRefs \cup {RefIpfs}

\* the ref names a scheme that a protocol handler is looked up for
HasScheme(r) == r = RefIpfs

IsPointer(r) == r \in {SelfRef, RefA, RefB}

\* the path of a local pointer, "#" removed and split at "/"
PointerPath(r) ==
    CASE r = RefA -> <<"definitions", "a">>
      [] r = RefB -> <<"definitions", "b">>
      [] OTHER -> <<>>

\* pointer.eval(root): Undefined stands for the evaluation throwing
RECURSIVE EvalPointer(_, _, _)
EvalPointer(h, v, path) ==
    IF path = <<>> THEN v
    ELSE IF ~Has(h, v, Head(path)) THEN Undefined
    ELSE EvalPointer(h, Get(h, v, Head(path)), Tail(path))

\* ------------------------------------------------------------------------
\* traverse(schema, callback): depth first over object values and array
\* elements, the callback on a node after its children, a node already on
\* the path (a cycle) is not entered again
\* ------------------------------------------------------------------------

\* JavaScript truthiness of a value
Truthy(v) ==
    CASE v.t = "undefined" -> FALSE
      [] v.t = "null" -> FALSE
      [] v.t = "string" -> v.s # ""
      [] v.t = "number" -> v.s # "0"
      [] v.t = "boolean" -> v.s = "true"
      [] OTHER -> TRUE

\* a variant of CollectCallback: the type of `$ref` is not looked at, only
\* strings are collected
CollectCallbackUnchecked(h, v, acc) ==
    IF Get(h, v, "$ref").t = "string" /\ ~Contains(acc.refs, Get(h, v, "$ref").s)
    THEN [refs |-> Append(acc.refs, Get(h, v, "$ref").s), err |-> FALSE]
    ELSE acc

\* the callback of collectRefs on one node; acc = [refs, err]
CollectCallback(h, v, acc) ==
    LET ref == Get(h, v, "$ref")
    IN  IF Truthy(ref) /\ ~(ref.t = "string" /\ Contains(acc.refs, ref.s))
        THEN IF ref.t # "string"
             THEN [refs |-> acc.refs, err |-> TRUE]
             ELSE [refs |-> Append(acc.refs, ref.s), err |-> FALSE]
        ELSE acc

RECURSIVE CollectNode(_, _, _, _)
RECURSIVE CollectKeys(_, _, _, _, _)
CollectNode(h, v, path, acc) ==
    IF acc.err \/ ~IsObj(v) \/ v.a \in path THEN acc
    ELSE With(CollectKeys(h, v, h[v.a].keys, path \cup {v.a}, acc),
              LAMBDA down : IF down.err THEN down ELSE CollectCallback(h, v, down))

CollectKeys(h, v, ks, path, acc) ==
    IF ks = <<>> \/ acc.err THEN acc
    ELSE With(CollectNode(h, Get(h, v, Head(ks)), path, acc),
              LAMBDA seen : CollectKeys(h, v, Tail(ks), path, seen))

\* a variant of collectRefs: the traversal is left at the first ref found,
\* the others are for later
collectRefsFirstOnly(h, schema) ==
    With(CollectNode(h, schema, {}, [refs |-> <<>>, err |-> FALSE]),
         LAMBDA all : [refs |-> IF all.refs = <<>> THEN <<>> ELSE <<all.refs[1]>>,
                       err |-> all.err])

\* Dereferencer.collectRefs
collectRefs(h, schema) == CollectNode(h, schema, {}, [refs |-> <<>>, err |-> FALSE])

\* ------------------------------------------------------------------------
\* copyOrNot(s1, s2): returns [h, v]
\* ------------------------------------------------------------------------
MergedKeys(h, s1, s2) ==
    SelectSeq(KeysOf(h, s2) \o SelectSeq(KeysOf(h, s1), LAMBDA k : ~Has(h, s2, k)),
              LAMBDA k : k # "$ref")

\* a variant of copyOrNot: a node with only `$ref` is copied as well
copyOrNotCopy(h, s1, s2) ==
    IF Get(h, s1, "$ref").t # "undefined" /\ ~IsBool(s2)
    THEN Alloc(h, MergedKeys(h, s1, s2),
               [k \in SeqToSet(MergedKeys(h, s1, s2)) |->
                   IF Has(h, s1, k) THEN Get(h, s1, k) ELSE Get(h, s2, k)])
    ELSE [h |-> h, v |-> s2]

\* a variant of copyOrNot: { ...s1, ...s2 }, the target's value wins
copyOrNotTargetWins(h, s1, s2) ==
    IF Get(h, s1, "$ref").t # "undefined" /\ Len(KeysOf(h, s1)) > 1 /\ ~IsBool(s2)
    THEN Alloc(h, MergedKeys(h, s1, s2),
               [k \in SeqToSet(MergedKeys(h, s1, s2)) |->
                   IF Has(h, s2, k) THEN Get(h, s2, k) ELSE Get(h, s1, k)])
    ELSE [h |-> h, v |-> s2]

\* a variant of copyOrNot: a Boolean target is spread as well,
\* { ...true, ...s1 } holds the sibling keys
copyOrNotSpreadBoolean(h, s1, s2) ==
    IF Get(h, s1, "$ref").t # "undefined" /\ Len(KeysOf(h, s1)) > 1
    THEN Alloc(h, MergedKeys(h, s1, s2),
               [k \in SeqToSet(MergedKeys(h, s1, s2)) |->
                   IF Has(h, s1, k) THEN Get(h, s1, k) ELSE Get(h, s2, k)])
    ELSE [h |-> h, v |-> s2]

\* a variant of copyOrNot: the sibling keys are assigned to the target itself,
\* Object.assign(s2, s1)
copyOrNotInPlace(h, s1, s2) ==
    IF Get(h, s1, "$ref").t # "undefined" /\ Len(KeysOf(h, s1)) > 1 /\ IsObj(s2)
    THEN [h |-> [h EXCEPT ![s2.a] =
                    [arr |-> h[s2.a].arr, keys |-> MergedKeys(h, s1, s2),
                     val |-> [k \in SeqToSet(MergedKeys(h, s1, s2)) |->
                                IF Has(h, s1, k) THEN Get(h, s1, k) ELSE Get(h, s2, k)]]],
          v |-> s2]
    ELSE [h |-> h, v |-> s2]

copyOrNot(h, s1, s2) ==
    IF Get(h, s1, "$ref").t # "undefined" /\ Len(KeysOf(h, s1)) > 1 /\ ~IsBool(s2)
    THEN Alloc(h, MergedKeys(h, s1, s2),
               [k \in SeqToSet(MergedKeys(h, s1, s2)) |->
                   IF Has(h, s1, k) THEN Get(h, s1, k) ELSE Get(h, s2, k)])
    ELSE [h |-> h, v |-> s2]

\* this.refCache[key] for a key that is any JavaScript value
CacheGet(c, key) ==
    IF key.t = "string" /\ key.s \in DOMAIN c THEN c[key.s] ELSE Undefined

\* a variant of SubstCallback: a node whose target is a Boolean is left
SubstCallbackObjectsOnly(h, c, v) ==
    IF IsObj(v) /\ Get(h, v, "$ref").t # "undefined"
          /\ ~IsBool(CacheGet(c, Get(h, v, "$ref")))
    THEN copyOrNot(h, v, CacheGet(c, Get(h, v, "$ref")))
    ELSE [h |-> h, v |-> v]

\* the callback of the substitution pass on one node
SubstCallback(h, c, v) ==
    IF IsObj(v) /\ Get(h, v, "$ref").t # "undefined"
    THEN copyOrNot(h, v, CacheGet(c, Get(h, v, "$ref")))
    ELSE [h |-> h, v |-> v]

\* traverse(schema, callback, { mutable: true }): returns [h, v]
RECURSIVE SubstNode(_, _, _, _)
RECURSIVE SubstKeys(_, _, _, _, _)
SubstNode(h, c, v, path) ==
    IF ~IsObj(v) \/ v.a \in path THEN [h |-> h, v |-> v]
    ELSE With(SubstKeys(h, c, v, h[v.a].keys, path \cup {v.a}),
              LAMBDA h1 : SubstCallback(h1, c, v))

SubstKeys(h, c, v, ks, path) ==
    IF ks = <<>> THEN h
    ELSE With(SubstNode(h, c, Get(h, v, Head(ks)), path),
              LAMBDA r : With(Put(r.h, v.a, Head(ks), r.v),
                              LAMBDA h1 : SubstKeys(h1, c, v, Tail(ks), path)))

\* ------------------------------------------------------------------------
\* Reachability and structure
\* ------------------------------------------------------------------------
Children(h, adr) == {h[adr].val[k].a : k \in {x \in SeqToSet(h[adr].keys) : IsObj(h[adr].val[x])}}

RECURSIVE ReachFrom(_, _, _)
ReachFrom(h, todo, seen) ==
    IF todo = {} THEN seen
    ELSE LET adr == CHOOSE x \in todo : TRUE
             new == Children(h, adr) \ (seen \cup {adr})
         IN  ReachFrom(h, (todo \ {adr}) \cup new, seen \cup {adr})

\* the addresses of the objects reachable from v through values and elements
Reach(h, v) == IF IsObj(v) THEN ReachFrom(h, {v.a}, {}) ELSE {}

IsRefNode(h, adr) == "$ref" \in SeqToSet(h[adr].keys)

HasRefNode(h, v) == \E adr \in Reach(h, v) : IsRefNode(h, adr)

\* ------------------------------------------------------------------------
\* Building documents
\* ------------------------------------------------------------------------
AllocArr(h, elems) ==
    [h |-> Append(h, [arr |-> TRUE,
                      keys |-> [j \in 1..Len(elems) |-> ToString(j - 1)],
                      val |-> [x \in {ToString(j - 1) : j \in 1..Len(elems)} |->
                                  elems[CHOOSE j \in 1..Len(elems) : ToString(j - 1) = x]]]),
     v |-> Ptr(Len(h) + 1)]

\* the shapes of the nodes a document of the model is made of
Shape(sh, r) == [sh |-> sh, r |-> r]

\* the values of a `$ref` key that are no strings
NonStringKinds == {"one", "zero", "null", "true", "false", "object", "array"}

\* a value of the kind: returns [h, v]
NonString(h, kind) ==
    CASE kind = "one" -> [h |-> h, v |-> Num("1")]
      [] kind = "zero" -> [h |-> h, v |-> Num("0")]
      [] kind = "null" -> [h |-> h, v |-> Null]
      [] kind = "true" -> [h |-> h, v |-> Bool("true")]
      [] kind = "false" -> [h |-> h, v |-> Bool("false")]
      [] kind = "object" -> Alloc(h, <<>>, <<>>)
      [] OTHER -> AllocArr(h, <<>>)

\* { $ref: val } for the value val = [h, v]
RefNode(val) == Alloc(val.h, <<"$ref">>, [k \in {"$ref"} |-> val.v])

\* { title: "foo", properties: { b: node } } for the node = [h, v]
Nested(node) ==
    With(Alloc(node.h, <<"b">>, [k \in {"b"} |-> node.v]),
         LAMBDA n2 : Alloc(n2.h, <<"title", "properties">>,
                           [k \in {"title", "properties"} |->
                               IF k = "title" THEN Str("foo") ELSE n2.v]))

Build(h, shape) ==
    CASE shape.sh = "pure" ->
           Alloc(h, <<"$ref">>, [k \in {"$ref"} |-> Str(shape.r)])
      [] shape.sh = "sib" ->
           Alloc(h, <<"title", "$ref">>,
                 [k \in {"title", "$ref"} |-> IF k = "title" THEN Str("bar") ELSE Str(shape.r)])
      [] shape.sh = "plain" ->
           Alloc(h, <<"title", "type">>,
                 [k \in {"title", "type"} |-> IF k = "title" THEN Str("baz") ELSE Str("string")])
      [] shape.sh = "nest" -> Nested(RefNode([h |-> h, v |-> Str(shape.r)]))
      [] shape.sh = "true" -> [h |-> h, v |-> Bool("true")]
      [] shape.sh = "bad" -> RefNode(NonString(h, shape.r))
      [] shape.sh = "badnest" -> Nested(RefNode(NonString(h, shape.r)))
      [] OTHER -> [h |-> h, v |-> Undefined]

RECURSIVE BuildAll(_, _, _)
\* builds the shapes in order: returns [h, vs]
BuildAll(h, shapes, vs) ==
    IF shapes = <<>> THEN [h |-> h, vs |-> vs]
    ELSE LET b == Build(h, Head(shapes))
         IN  BuildAll(b.h, Tail(shapes), Append(vs, b.v))

\* { title: "rewt", oneOf: [...], definitions: { a, b } } (form "tree"),
\* { $ref: rootRef, definitions: { a, b } } (form "ref") or a Boolean
BuildDoc(h, d) ==
    IF d.form = "boolean" THEN [h |-> h, v |-> Bool(d.rootRef)]
    ELSE With(BuildAll(h, <<d.a, d.b>>, <<>>), LAMBDA defs :
         With(Alloc(defs.h, <<"a", "b">>,
                    [k \in {"a", "b"} |-> IF k = "a" THEN defs.vs[1] ELSE defs.vs[2]]),
              LAMBDA dobj :
         IF d.form = "ref"
         THEN Alloc(dobj.h, <<"$ref", "definitions">>,
                    [k \in {"$ref", "definitions"} |->
                        IF k = "$ref" THEN Str(d.rootRef) ELSE dobj.v])
         ELSE With(BuildAll(dobj.h, d.oneOf, <<>>), LAMBDA elems :
              With(AllocArr(elems.h, elems.vs), LAMBDA arr :
              Alloc(arr.h, <<"title", "oneOf", "definitions">>,
                    [k \in {"title", "oneOf", "definitions"} |->
                        CASE k = "title" -> Str("rewt")
                          [] k = "oneOf" -> arr.v
                          [] OTHER -> dobj.v])))))

\* what the Loader reads at RefFile: a fresh object at each read
FileShapes == {"missing", "plain", "nest", "bad", "idself", "iddef"}

\* a document that declares its identity and holds a local pointer:
\* { $id: "f", items: { $ref: r }, definitions: { a: { title: "inner" } } }
BuildIdFile(h, r) ==
    LET inner == Alloc(h, <<"title">>, [k \in {"title"} |-> Str("inner")])
        defs == Alloc(inner.h, <<"a">>, [k \in {"a"} |-> inner.v])
        node == Alloc(defs.h, <<"$ref">>, [k \in {"$ref"} |-> Str(r)])
    IN  Alloc(node.h, <<"$id", "items", "definitions">>,
              [k \in {"$id", "items", "definitions"} |->
                  CASE k = "$id" -> Str("f")
                    [] k = "items" -> node.v
                    [] OTHER -> defs.v])

BuildFile(h, f) ==
    IF f = "nest" THEN Build(h, Shape("nest", RefB))
    ELSE IF f = "bad" THEN Build(h, Shape("badnest", "one"))
    ELSE IF f = "idself" THEN BuildIdFile(h, SelfRef)
    ELSE IF f = "iddef" THEN BuildIdFile(h, RefA)
    ELSE Build(h, Shape("plain", ""))

\* a copy of a tree of objects: returns [h, v]
RECURSIVE CloneNode(_, _)
RECURSIVE CloneKeys(_, _, _, _)
CloneNode(h, v) ==
    IF ~IsObj(v) THEN [h |-> h, v |-> v]
    ELSE With(Append(h, [arr |-> h[v.a].arr, keys |-> <<>>, val |-> <<>>]),
              LAMBDA h1 : [h |-> CloneKeys(h1, v, Len(h1), h[v.a].keys),
                           v |-> Ptr(Len(h1))])

CloneKeys(h, v, adr, ks) ==
    IF ks = <<>> THEN h
    ELSE With(CloneNode(h, Get(h, v, Head(ks))),
              LAMBDA r : With(Put(r.h, adr, Head(ks), r.v),
                              LAMBDA h1 : CloneKeys(h1, v, adr, Tail(ks))))

\* ------------------------------------------------------------------------
\* The documents, files and options of the model
\* ------------------------------------------------------------------------
\* the number of nested Dereferencer instances the model keeps: when one
\* more is created the outermost of them is forgotten
MaxDepth == 5

\* loaderCalls counts up to MaxCalls: more calls are not told apart
MaxCalls == 2

\* how many times the caller resolves the document
MaxAttempts == 2

\* the largest heap the Loader still adds a file's document to
MaxHeap == 40

ElemShapes ==
    {Shape("pure", r) : r \in DocRefs} \cup {Shape("sib", r) : r \in {RefA, RefB}}
        \cup {Shape("plain", "")}

LastElemShapes ==
    {Shape("pure", RefA), Shape("pure", RefB), Shape("sib", RefB), Shape("plain", "")}

DefAShapes ==
    {Shape("pure", r) : r \in {SelfRef, RefA, RefB}}
        \cup {Shape("nest", r) : r \in {RefA, RefB}}
        \cup {Shape("sib", RefB), Shape("plain", ""), Shape("true", "")}

DefBShapes ==
    {Shape("pure", r) : r \in {SelfRef, RefA, RefFile}}
        \cup {Shape("nest", SelfRef), Shape("plain", ""), Shape("true", "")}

Docs ==
    {[form |-> "tree", rootRef |-> "", oneOf |-> <<e1, e2>>, a |-> da, b |-> db] :
        e1 \in ElemShapes, e2 \in LastElemShapes, da \in DefAShapes, db \in DefBShapes}
    \cup
    {[form |-> "ref", rootRef |-> r, oneOf |-> <<>>, a |-> da, b |-> db] :
        r \in {RefA, RefFile}, da \in DefAShapes, db \in DefBShapes}
    \cup
    {[form |-> "tree", rootRef |-> "", oneOf |-> <<Shape("bad", k), e2>>,
      a |-> Shape("plain", ""), b |-> db] :
        k \in NonStringKinds, e2 \in {Shape("pure", RefB), Shape("plain", "")},
        db \in {Shape("plain", ""), Shape("pure", RefFile)}}
    \cup
    {[form |-> "boolean", rootRef |-> b, oneOf |-> <<>>,
      a |-> Shape("plain", ""), b |-> Shape("plain", "")] : b \in {"true", "false"}}

UsesFile(d) ==
    \/ d.rootRef = RefFile
    \/ d.a.r = RefFile
    \/ d.b.r = RefFile
    \/ \E j \in 1..Len(d.oneOf) : d.oneOf[j].r = RefFile

\* the options the caller passes: recursive, mutate, and the ref of a
\* pre-seeded refCache entry ("" for none)
Configs ==
    {[recursive |-> Undefined, mutate |-> FALSE, seed |-> ""],
     [recursive |-> Undefined, mutate |-> TRUE, seed |-> ""],
     [recursive |-> Bool("false"), mutate |-> TRUE, seed |-> ""],
     [recursive |-> Undefined, mutate |-> TRUE, seed |-> RefB],
     [recursive |-> Undefined, mutate |-> FALSE, seed |-> RefFile]}

\* the resolved document a pre-seeded refCache entry holds
BuildSeed(h) == 
    Alloc(h, <<"title">>, [k \in {"title"} |-> Str("seeded")])

EmptyCache == [r \in Refs |-> Undefined]

\* ------------------------------------------------------------------------
\* fetchRef(ref): the refs it is called with and what it finds
\* ------------------------------------------------------------------------

\* how many plugins the options hold at most
MaxPlugins == 3

RefMissing == "#/definitions/zz"
RefMalformed == "#definitions"
RefBareFile == "f.json"
RefAbsolute == "/abs/f.json"
RefDollar == "$HOME/f.json"
RefUrl == "http://host/s.json"

FetchRefs ==
    {SelfRef, RefA, RefMissing, RefMalformed, RefFile, RefBareFile, RefAbsolute,
     RefDollar, RefUrl}

\* ref[0] === "#"
IsLocal(r) == r \in {SelfRef, RefA, RefMissing, RefMalformed}

\* Ptr.parse(withoutHash) and pointer.eval(this.schema) both return
Evaluates(r) == r \in {SelfRef, RefA}

\* ["$", ".", "/", ".."].indexOf(ref[0]) !== -1
PathShaped(r) == r \in {RefFile, RefAbsolute, RefDollar}

\* what a plugin does for the ref: it resolves with nothing, it resolves
\* with a document, or its promise rejects
PluginOutcomes == {"nothing", "document", "rejects"}

\* options.plugins: undefined, or up to MaxPlugins plugins
PluginLists ==
    {<<"undefined">>} \cup UNION {[1..n -> PluginOutcomes] : n \in 0..MaxPlugins}

\* what fs.access and fs.readFile find at the ref
FileStates == {"missing", "garbage", "json"}

\* what fetch(ref).then((r) => r.json()) does
RemoteStates == {"rejects", "garbage", "json"}

\* no fetchRef call was made
NoFetch ==
    [pc |-> "idle", ref |-> "", refCache |-> [r \in FetchRefs |-> ""], seeded |-> FALSE,
     plugins |-> <<>>, loaders |-> FALSE, readFile |-> FALSE, fs |-> "missing",
     net |-> "rejects", invoked |-> <<>>, value |-> "", error |-> "", names |-> <<>>]

\* ------------------------------------------------------------------------
\* State
\* ------------------------------------------------------------------------
VARIABLES
    heap,         \* the objects: address -> object
    input,        \* the document the caller passes to the constructor
    heap0,        \* the heap as it was when the caller passed the document
    cache0,       \* the refCache as the caller passed it
    work,         \* the document the outermost instance was constructed on
    heap1,        \* the heap as it was when the outermost constructor returned
    options,      \* the options object the caller passes
    file,         \* what the Loader finds at RefFile
    cache,        \* refCache, shared by the instances of the session
    stack,        \* the Dereferencer instances: the outermost first
    status,       \* "init", "created", "resolving", "resolved", "failed"
    result,       \* what resolve() returned
    error,        \* the error resolve() or the constructor failed with
    loaderCalls,  \* how often referenceResolver.resolve ran for each ref
    registry,     \* referenceResolver.protocolHandlerMap: the handler of the scheme
    fetching,     \* the fetchRef call under way: where it is and what it did
    attempt,      \* which resolve() over the caller's document this is
    earlier       \* the outcome for the document in its earlier order

vars == <<heap, input, heap0, cache0, work, heap1, options, file, cache, stack, status,
          result, error, loaderCalls, registry, fetching, attempt, earlier>>

\* what the caller passed, and what the Loader finds
given == <<input, heap0, cache0, file, attempt, earlier>>

\* the outermost instance as constructed
made == <<work, heap1, options>>

\* one Dereferencer instance and its position in _resolve
Instance(schema, refs, root, recursive, outermost) ==
    [schema |-> schema, refs |-> refs, root |-> root, recursive |-> recursive,
     outermost |-> outermost,
     pc |-> "start", unfetched |-> <<>>, i |-> 1, fetched |-> Undefined]

Top == stack[Len(stack)]

SetTop(f) == [stack EXCEPT ![Len(stack)] = f]

Running == status = "resolving" /\ stack # <<>>

\* before the caller has constructed anything
Init ==
    /\ heap = <<>>
    /\ heap0 = <<>>
    /\ heap1 = <<>>
    /\ input = Undefined
    /\ work = Undefined
    /\ options = [recursive |-> Undefined, rootSchema |-> Undefined, mutate |-> FALSE,
                  protocolHandlerMap |-> ""]
    /\ registry = ""
    /\ fetching = NoFetch
    /\ file = "plain"
    /\ cache = EmptyCache
    /\ cache0 = EmptyCache
    /\ stack = <<>>
    /\ status = "init"
    /\ result = Undefined
    /\ error = ""
    /\ loaderCalls = [r \in Refs |-> 0]
    /\ attempt = 1
    /\ earlier = [h |-> <<>>, v |-> Undefined, how |-> ""]

\* ------------------------------------------------------------------------
\* The constructor and resolve()
\* ------------------------------------------------------------------------

\* a variant of WorkingCopy: the caller's object whatever mutate says
WorkingCopyShared(h, v, mutate) == [h |-> h, v |-> v]

\* the document the instance works on: the caller's object under
\* mutate = true, a freshly built copy of it under mutate = false
WorkingCopy(h, v, mutate) ==
    IF mutate THEN [h |-> h, v |-> v] ELSE CloneNode(h, v)

\* a variant of RootSchemaOf: every instance takes its own schema as the root
RootSchemaOfOwn(h, schema, rootSchema) == schema

\* options.rootSchema after the constructor ran on schema
RootSchemaOf(h, schema, rootSchema) ==
    IF IsObj(schema) /\ Truthy(Get(h, schema, "$id")) THEN schema
    ELSE IF rootSchema.t = "undefined" THEN schema
    ELSE rootSchema

\* a variant of Fail: the error is replaced by a generic one
FailWrapped(e) ==
    /\ status' = "failed"
    /\ error' = "Error"
    /\ stack' = <<>>

\* a variant of RefCacheOf: the instance keeps its own empty refCache
RefCacheOfOwn(c) == EmptyCache

\* this.refCache = this.options.refCache
RefCacheOf(c) == c

Fail(e) ==
    /\ status' = "failed"
    /\ error' = e
    /\ stack' = <<>>

\* a variant of Registered: the handlers supplied are not registered
RegisteredNot(reg, supplied) == reg

\* referenceResolver.protocolHandlerMap[k] = options.protocolHandlerMap[k]
\* for the scheme of the model: the handler supplied ("" for none) replaces
\* the one registered
Registered(reg, supplied) == IF supplied = "" THEN reg ELSE supplied

\* the constructor on the working copy [h, v] of the document, with the
\* options opts and the refCache c
ConstructOn(copy, opts, c) ==
    LET root == RootSchemaOf(copy.h, copy.v, opts.rootSchema)
        recursive == IF opts.recursive.t = "undefined" THEN Bool("true")
                     ELSE opts.recursive
        collected == collectRefs(copy.h, copy.v)
    IN  /\ heap' = copy.h
        /\ heap1' = copy.h
        /\ work' = copy.v
        /\ options' = [opts EXCEPT !.recursive = recursive, !.rootSchema = root]
        /\ cache' = RefCacheOf(c)
        /\ registry' = Registered(registry, opts.protocolHandlerMap)
        /\ IF collected.err
           THEN Fail("NonStringRefError")
           ELSE /\ status' = "created"
                /\ stack' = <<Instance(copy.v, collected.refs, root,
                                       recursive = Bool("true"), TRUE)>>
                /\ error' = ""

\* the constructor on the document schema of heap h, with the options opts
\* and the refCache c
Construct(h, schema, opts, c) ==
    ConstructOn(WorkingCopy(h, schema, opts.mutate), opts, c)

\* what the caller passes: the document doc = [h, v] and the refCache c,
\* pre-seeded or empty as cfg says
Passed(doc, cfg) ==
    IF cfg.seed = "" THEN [h |-> doc.h, v |-> doc.v, c |-> EmptyCache]
    ELSE With(BuildSeed(doc.h), LAMBDA seeded :
              [h |-> seeded.h, v |-> doc.v,
               c |-> [EmptyCache EXCEPT ![cfg.seed] = seeded.v]])

\* the handler the caller supplies for the scheme, "" for none
HandlerOf(cfg) == IF "handler" \in DOMAIN cfg THEN cfg.handler ELSE ""

\* the constructor on what the caller passes
NewOn(p, cfg) ==
    /\ heap0' = p.h
    /\ input' = p.v
    /\ cache0' = p.c
    /\ Construct(p.h, p.v, [recursive |-> cfg.recursive, rootSchema |-> Undefined,
                            mutate |-> cfg.mutate,
                            protocolHandlerMap |-> HandlerOf(cfg)], p.c)

\* new Dereferencer(input, options): the caller's document d of D, options
\* cfg of C and the file f the Loader will find
NewWith(D, C) ==
    /\ status = "init"
    /\ \E d \in D, cfg \in C, f \in FileShapes :
            /\ f # "plain" => UsesFile(d)
            /\ file' = f
            /\ NewOn(Passed(BuildDoc(<<>>, d), cfg), cfg)
    /\ UNCHANGED <<result, loaderCalls, fetching, attempt, earlier>>

NewOf(D) == NewWith(D, Configs)

New == NewOf(Docs)

\* after a resolve() that failed the caller resolves the document again
\* with the refCache of the failed one:
\* new Dereferencer(input, { ...options, refCache }).resolve();
\* the Loader finds what it found before, or the file is there by now
ResolveAgain ==
    /\ status = "failed"
    /\ ~collectRefs(heap1, work).err
    /\ attempt < MaxAttempts
    /\ attempt' = attempt + 1
    /\ \E f \in {file, "plain"} : file' = f
    /\ heap0' = heap
    /\ cache0' = cache
    /\ loaderCalls' = [r \in Refs |-> 0]
    /\ Construct(heap, input, [recursive |-> options.recursive, rootSchema |-> Undefined,
                              mutate |-> options.mutate,
                              protocolHandlerMap |-> options.protocolHandlerMap], cache)
    /\ UNCHANGED <<input, result, fetching, earlier>>

\* the caller invokes resolve()
Resolve ==
    /\ status = "created"
    /\ status' = "resolving"
    /\ UNCHANGED <<heap, given, made, registry, cache, stack, result, error, loaderCalls, fetching>>

\* a variant of Cached: the refCache is never consulted
CachedNever(c, r) == FALSE

\* this.refCache[r] !== undefined
Cached(c, r) == c[r].t # "undefined"

\* _resolve up to the loop: a Boolean schema or no refs return at once
Start ==
    /\ Running
    /\ Top.pc = "start"
    /\ IF IsBool(Top.schema) \/ Top.refs = <<>>
       THEN stack' = SetTop([Top EXCEPT !.pc = "return"])
       ELSE stack' = SetTop([Top EXCEPT !.pc = "loop", !.i = 1,
                                 !.unfetched = SelectSeq(Top.refs,
                                     LAMBDA r : ~Cached(cache, r))])
    /\ UNCHANGED <<heap, given, made, registry, cache, status, result, error, loaderCalls, fetching>>

InLoop == Running /\ Top.pc = "loop" /\ Top.i <= Len(Top.unfetched)

CurrentRef(f) == f.unfetched[f.i]

\* the ref was cached since unfetchedRefs was computed
CacheHit ==
    /\ InLoop
    /\ Cached(cache, CurrentRef(Top))
    /\ stack' = SetTop([Top EXCEPT !.pc = "fetched", !.fetched = cache[CurrentRef(Top)]])
    /\ UNCHANGED <<heap, given, made, registry, cache, status, result, error, loaderCalls, fetching>>

\* ref === "#": the root schema, no Loader call
SelfRefHit ==
    /\ InLoop
    /\ ~Cached(cache, CurrentRef(Top))
    /\ CurrentRef(Top) = SelfRef
    /\ IF Top.root.t = "undefined"
       THEN Fail("Error") /\ UNCHANGED <<heap, cache, result>>
       ELSE /\ stack' = SetTop([Top EXCEPT !.pc = "fetched", !.fetched = Top.root])
            /\ UNCHANGED <<heap, cache, status, result, error>>
    /\ UNCHANGED <<given, made, registry, loaderCalls, fetching>>

\* a variant of CallLoader: the call is made and the loop goes on without
\* awaiting its promise
CallLoaderNotAwaited ==
    /\ InLoop
    /\ ~Cached(cache, CurrentRef(Top))
    /\ CurrentRef(Top) # SelfRef
    /\ loaderCalls' = [loaderCalls EXCEPT ![CurrentRef(Top)] =
                           IF @ < MaxCalls THEN @ + 1 ELSE @]
    /\ stack' = SetTop([Top EXCEPT !.pc = "loop", !.i = @ + 1])
    /\ UNCHANGED <<heap, given, made, registry, cache, status, result, error, fetching>>

\* referenceResolver.resolve(ref, rootSchema) is called
CallLoader ==
    /\ InLoop
    /\ ~Cached(cache, CurrentRef(Top))
    /\ CurrentRef(Top) # SelfRef
    /\ loaderCalls' = [loaderCalls EXCEPT ![CurrentRef(Top)] =
                           IF @ < MaxCalls THEN @ + 1 ELSE @]
    /\ stack' = SetTop([Top EXCEPT !.pc = "await"])
    /\ UNCHANGED <<heap, given, made, registry, cache, status, result, error, fetching>>

\* the handlers callers supply for the scheme
Handlers == {"mine", "other"}

\* what the handler named returns for the ref: a new object at each call,
\* (ref) => Promise.resolve({ type: ..., title: ref }), the type "string"
\* from the one handler and "number" from the other
HandlerDocument(h, ref, name) ==
    Alloc(h, <<"type", "title">>,
          [k \in {"type", "title"} |->
              IF k = "title" THEN Str(ref)
              ELSE IF name = "mine" THEN Str("string") ELSE Str("number")])

\* what the Loader answers: [h, v], v undefined when it throws
LoaderAnswer(h, ref, root, f, reg) ==
    IF IsPointer(ref) THEN [h |-> h, v |-> EvalPointer(h, root, PointerPath(ref))]
    ELSE IF HasScheme(ref)
    THEN IF reg = "" THEN [h |-> h, v |-> Undefined] ELSE HandlerDocument(h, ref, reg)
    ELSE IF f = "missing" THEN [h |-> h, v |-> Undefined]
    ELSE BuildFile(h, f)

LoaderError(ref) ==
    IF IsPointer(ref) THEN "InvalidJsonPointerRefError" ELSE "InvalidFileSystemPathError"

\* the awaited Loader promise resolves
LoaderReturn ==
    /\ Running
    /\ Top.pc = "await"
    /\ LET ans == LoaderAnswer(heap, CurrentRef(Top), Top.root, file, registry)
       IN  /\ ans.v.t # "undefined"
           /\ Len(ans.h) > Len(heap) => Len(heap) <= MaxHeap
           /\ heap' = ans.h
           /\ stack' = SetTop([Top EXCEPT !.pc = "fetched", !.fetched = ans.v])
    /\ UNCHANGED <<given, made, registry, cache, status, result, error, loaderCalls, fetching>>

\* the awaited Loader promise rejects: the error leaves every _resolve
LoaderFail ==
    /\ Running
    /\ Top.pc = "await"
    /\ LoaderAnswer(heap, CurrentRef(Top), Top.root, file, registry).v.t = "undefined"
    /\ Fail(LoaderError(CurrentRef(Top)))
    /\ UNCHANGED <<heap, given, made, registry, cache, result, loaderCalls, fetching>>

\* a variant of Recursing: the fetched document is never dereferenced
RecursingOff(f) == FALSE

\* the instances the model keeps when one more is created
Kept(st) == IF Len(st) < MaxDepth THEN st ELSE Tail(st)

\* a variant of Recursing: the recursive option is not looked at
RecursingAlways(f) == ~IsBool(f.fetched) /\ CurrentRef(f) # SelfRef

Recursing(f) == f.recursive /\ ~IsBool(f.fetched) /\ CurrentRef(f) # SelfRef

\* new Dereferencer(fetched, { ...options, refCache }) and, when it
\* collected refs, the call of its _resolve
SubDereference ==
    /\ Running
    /\ Top.pc = "fetched"
    /\ Recursing(Top)
    /\ LET collected == collectRefs(heap, Top.fetched)
       IN  /\ collected.err \/ collected.refs # <<>>
           /\ IF collected.err
              THEN Fail("NonStringRefError")
              ELSE /\ stack' = Append(Kept(SetTop([Top EXCEPT !.pc = "awaitSub"])),
                                      Instance(Top.fetched, collected.refs,
                                               RootSchemaOf(heap, Top.fetched, Top.root),
                                               Top.recursive, FALSE))
                   /\ UNCHANGED <<status, error>>
    /\ registry' = Registered(registry, options.protocolHandlerMap)
    /\ UNCHANGED <<heap, given, made, cache, result, loaderCalls, fetching>>

\* this.refCache[ref] = fetched
StoreFetched ==
    /\ Running
    /\ Top.pc = "fetched"
    /\ \/ ~Recursing(Top)
       \/ LET collected == collectRefs(heap, Top.fetched)
          IN  ~collected.err /\ collected.refs = <<>>
    /\ cache' = [cache EXCEPT ![CurrentRef(Top)] = Top.fetched]
    /\ stack' = SetTop([Top EXCEPT !.pc = "loop", !.i = @ + 1])
    /\ UNCHANGED <<heap, given, made, registry, status, result, error, loaderCalls, fetching>>

\* the sub-instance's _resolve returned:
\* this.refCache[ref] = copyOrNot(fetched, subFetched)
SubReturn ==
    /\ Running
    /\ Len(stack) > 1
    /\ Top.pc = "return"
    /\ LET parent == stack[Len(stack) - 1]
           merged == copyOrNot(heap, parent.fetched, Top.schema)
       IN  /\ heap' = merged.h
           /\ cache' = [cache EXCEPT ![CurrentRef(parent)] = merged.v]
           /\ stack' = [SubSeq(stack, 1, Len(stack) - 1) EXCEPT ![Len(stack) - 1] =
                           [parent EXCEPT !.pc = "loop", !.i = @ + 1]]
    /\ UNCHANGED <<given, made, registry, status, result, error, loaderCalls, fetching>>

\* a variant of Substitution: the pass runs on a shallow copy of the schema
SubstitutionOnCopy(h, c, schema) ==
    IF Get(h, schema, "$ref").t # "undefined"
    THEN copyOrNot(h, schema, CacheGet(c, Get(h, schema, "$ref")))
    ELSE LET copy == Alloc(h, KeysOf(h, schema),
                           [k \in SeqToSet(KeysOf(h, schema)) |-> Get(h, schema, k)])
         IN  [h |-> SubstNode(copy.h, c, copy.v, {}).h, v |-> copy.v]

\* a variant of Substitution: every _resolve deletes the container keys of
\* the schema it returns
SubstitutionPruning(h, c, schema) ==
    LET done == IF Get(h, schema, "$ref").t # "undefined"
                THEN copyOrNot(h, schema, CacheGet(c, Get(h, schema, "$ref")))
                ELSE [h |-> SubstNode(h, c, schema, {}).h, v |-> schema]
    IN  [h |-> IF IsObj(done.v)
               THEN Delete(Delete(done.h, done.v.a, "definitions"), done.v.a, "components")
               ELSE done.h,
         v |-> done.v]

\* the substitution pass of an instance: [h, schema]
Substitution(h, c, schema) ==
    IF Get(h, schema, "$ref").t # "undefined"
    THEN copyOrNot(h, schema, CacheGet(c, Get(h, schema, "$ref")))
    ELSE [h |-> SubstNode(h, c, schema, {}).h, v |-> schema]

\* after the loop: substitute, await Promise.all(proms), return this.schema
Substitute ==
    /\ Running
    /\ Top.pc = "loop"
    /\ Top.i > Len(Top.unfetched)
    /\ LET done == Substitution(heap, cache, Top.schema)
       IN  /\ heap' = done.h
           /\ stack' = SetTop([Top EXCEPT !.pc = "return", !.schema = done.v])
    /\ UNCHANGED <<given, made, registry, cache, status, result, error, loaderCalls, fetching>>

\* a variant of Prune: nothing is deleted
PruneNothing(h, schema) == h

\* delete this.schema.definitions; delete this.schema.components
Prune(h, schema) ==
    IF IsObj(schema) THEN Delete(Delete(h, schema.a, "definitions"), schema.a, "components")
    ELSE h

\* resolve() after _resolve returned
Finish ==
    /\ Running
    /\ Len(stack) = 1
    /\ Top.outermost
    /\ Top.pc = "return"
    /\ IF Top.schema.t = "undefined"
       THEN Fail("TypeError") /\ UNCHANGED <<heap, result>>
       ELSE /\ heap' = Prune(heap, Top.schema)
            /\ result' = Top.schema
            /\ status' = "resolved"
            /\ stack' = <<>>
            /\ UNCHANGED error
    /\ UNCHANGED <<given, made, registry, cache, loaderCalls, fetching>>

\* the steps of a running resolve()
Run ==
    \/ Start
    \/ CacheHit
    \/ SelfRefHit
    \/ CallLoader
    \/ LoaderReturn
    \/ LoaderFail
    \/ SubDereference
    \/ StoreFetched
    \/ SubReturn
    \/ Substitute
    \/ Finish

Next ==
    \/ New
    \/ Resolve
    \/ Run

Spec == Init /\ [][Next]_vars

\* the specification in which the caller resolves again after a failure
AgainNext ==
    \/ New
    \/ Resolve
    \/ Run
    \/ ResolveAgain

AgainSpec == Init /\ [][AgainNext]_vars

\* the sequence s from its last element to its first
Reverse(s) == [j \in 1..Len(s) |-> s[Len(s) + 1 - j]]

\* the index an array element moves to when the array is reversed
Moved(keys, k) ==
    LET j == CHOOSE x \in 1..Len(keys) : keys[x] = k
    IN  keys[Len(keys) + 1 - j]

\* the objects of h in another order: the elements of every array
\* reversed, or the keys of every object that is no array reversed
Reordered(h, how) ==
    [adr \in 1..Len(h) |->
        IF h[adr].arr
        THEN IF how = "elements"
             THEN [h[adr] EXCEPT !.val = [k \in SeqToSet(h[adr].keys) |->
                                            h[adr].val[Moved(h[adr].keys, k)]]]
             ELSE h[adr]
        ELSE IF how = "keys" THEN [h[adr] EXCEPT !.keys = Reverse(@)]
             ELSE h[adr]]

Orders == {"elements", "keys"}

\* the documents resolved in two orders
OrderDocs == {d \in Docs : d.form # "boolean" /\ \A j \in 1..Len(d.oneOf) : d.oneOf[j].sh # "bad"}

OrderNew == NewOf(OrderDocs)

\* after a resolve() that returned, the caller resolves, in a session of
\* its own, the document that differs from the one passed before in the
\* order of its array elements or of its keys only
Reorder ==
    /\ status = "resolved"
    /\ cache0 = EmptyCache
    /\ attempt < MaxAttempts
    /\ attempt' = attempt + 1
    /\ \E how \in Orders :
          /\ Reordered(heap0, how) # heap0
          /\ heap0' = Reordered(heap0, how)
          /\ earlier' = [h |-> heap, v |-> result, how |-> how]
          /\ Construct(Reordered(heap0, how), input,
                       [recursive |-> options.recursive, rootSchema |-> Undefined,
                        mutate |-> options.mutate,
                        protocolHandlerMap |-> options.protocolHandlerMap], EmptyCache)
    /\ loaderCalls' = [r \in Refs |-> 0]
    /\ result' = Undefined
    /\ UNCHANGED <<input, cache0, file, fetching>>

OrderNext ==
    \/ OrderNew
    \/ Resolve
    \/ Run
    \/ Reorder

OrderSpec == Init /\ [][OrderNext]_vars

\* the documents of the specification with fairness
LiveDocs ==
    {[form |-> "tree", rootRef |-> "", oneOf |-> <<e1, Shape("pure", RefB)>>,
      a |-> da, b |-> db] :
        e1 \in {Shape("pure", r) : r \in {SelfRef, RefA, RefFile}},
        da \in {Shape("pure", RefA), Shape("pure", RefB), Shape("nest", RefA),
                Shape("plain", "")},
        db \in {Shape("pure", SelfRef), Shape("pure", RefA), Shape("plain", "")}}

LiveNew == NewOf(LiveDocs)

LiveNext ==
    \/ LiveNew
    \/ Resolve
    \/ Run

\* the scheduler runs every continuation that is ready
LiveSpec == Init /\ [][LiveNext]_vars /\ WF_vars(Run)

\* the documents the caller constructs a Dereferencer on with an options
\* object it has passed to a constructor before
ReuseDocs ==
    {[form |-> "tree", rootRef |-> "", oneOf |-> <<Shape("pure", r), Shape("plain", "")>>,
      a |-> Shape("plain", ""), b |-> db] :
        r \in {SelfRef, RefA}, db \in {Shape("plain", ""), Shape("true", "")}}

\* the refCache of an instance whose options hold the refCache c0 the
\* caller supplied, or none (an empty c0): the supplied object as it is by
\* now, or the instance's own empty refCache
RefCacheGiven(c0, c) == IF c0 = EmptyCache THEN EmptyCache ELSE c

\* the constructor on the document doc = [h, v] with the options object
\* as the earlier constructor left it
NewSameOn(doc) ==
    /\ heap0' = doc.h
    /\ input' = doc.v
    /\ Construct(doc.h, doc.v, options, RefCacheGiven(cache0, cache))

\* const opts = {...}; new Dereferencer(first, opts); ...;
\* new Dereferencer(second, opts): the options object is the one the
\* earlier constructor assigned recursive and rootSchema to
NewSameOptions ==
    /\ status \in {"created", "resolved"}
    /\ attempt < MaxAttempts
    /\ attempt' = attempt + 1
    /\ \E d \in ReuseDocs : NewSameOn(BuildDoc(heap, d))
    /\ cache0' = RefCacheGiven(cache0, cache)
    /\ loaderCalls' = [r \in Refs |-> 0]
    /\ result' = Undefined
    /\ UNCHANGED <<file, fetching, earlier>>

ReuseNew == NewOf(LiveDocs)

ReuseNext ==
    \/ ReuseNew
    \/ Resolve
    \/ Run
    \/ NewSameOptions

\* the specification in which the caller passes one options object to two
\* constructors
ReuseSpec == Init /\ [][ReuseNext]_vars

\* the documents with a ref of the scheme that the caller supplies a
\* protocol handler for
HandlerDocs ==
    {[form |-> "tree", rootRef |-> "", oneOf |-> <<e1, e2>>, a |-> da, b |-> db] :
        e1 \in {Shape("pure", RefIpfs), Shape("pure", RefA)},
        e2 \in {Shape("pure", RefIpfs), Shape("pure", RefB), Shape("pure", SelfRef),
                Shape("plain", "")},
        da \in {Shape("plain", ""), Shape("pure", RefIpfs), Shape("nest", RefIpfs)},
        db \in {Shape("plain", ""), Shape("pure", RefA), Shape("pure", RefFile)}}
    \cup
    {[form |-> "ref", rootRef |-> RefIpfs, oneOf |-> <<>>, a |-> da,
      b |-> Shape("plain", "")] :
        da \in {Shape("plain", ""), Shape("pure", RefIpfs)}}

\* the options with a protocolHandlerMap
HandlerConfigs ==
    {[recursive |-> r, mutate |-> m, seed |-> "", handler |-> "mine"] :
        r \in {Undefined, Bool("false")}, m \in BOOLEAN}

HandlerNew == NewWith(HandlerDocs, HandlerConfigs)

\* elsewhere in the process a Dereferencer is constructed with a
\* protocolHandlerMap of its own for the scheme: its constructor assigns
\* the handler to the protocolHandlerMap of the one referenceResolver.
\* Other code runs before the caller invokes resolve() and while the
\* session awaits; the handler of a call that is awaited has been looked
\* up already
OtherConstructed ==
    /\ \/ status = "created"
       \/ Running /\ Top.pc = "await" /\ ~HasScheme(CurrentRef(Top))
    /\ registry # "other"
    /\ registry' = Registered(registry, "other")
    /\ UNCHANGED <<heap, given, made, cache, stack, status, result, error, loaderCalls, fetching>>

HandlerNext ==
    \/ HandlerNew
    \/ Resolve
    \/ Run
    \/ OtherConstructed

\* the specification of a process with two Dereferencers that supply a
\* handler for the same scheme
HandlerSpec == Init /\ [][HandlerNext]_vars

\* the process with the one Dereferencer
AloneNext ==
    \/ HandlerNew
    \/ Resolve
    \/ Run

AloneSpec == Init /\ [][AloneNext]_vars

\* the documents with reference nodes whose ref string is empty
CollectDocs ==
    {[form |-> "tree", rootRef |-> "", oneOf |-> <<e1, e2>>, a |-> da, b |-> db] :
        e1 \in {Shape("pure", ""), Shape("sib", ""), Shape("nest", ""), Shape("pure", RefA)},
        e2 \in {Shape("pure", RefA), Shape("pure", RefB), Shape("pure", SelfRef),
                Shape("plain", "")},
        da \in {Shape("plain", ""), Shape("pure", ""), Shape("nest", RefB)},
        db \in {Shape("plain", ""), Shape("pure", RefA), Shape("pure", RefFile),
                Shape("true", "")}}

CollectNew == NewOf(CollectDocs)

CollectNext ==
    \/ CollectNew
    \/ Resolve
    \/ Run

\* the specification of the documents with empty ref strings
CollectSpec == Init /\ [][CollectNext]_vars

\* ------------------------------------------------------------------------
\* fetchRef, step by step: one action for the call up to its first await
\* and one for each promise it awaits
\* ------------------------------------------------------------------------

FetchReturns(f, v) == [f EXCEPT !.pc = "returned", !.value = v]

FetchThrows(f, e) == [f EXCEPT !.pc = "failed", !.error = e]

\* this.refCache[ref] = v; return v
FetchCaches(f, v) == [FetchReturns(f, v) EXCEPT !.refCache[f.ref] = v]

\* fsUtils.fileExistsAndReadable(this.options.loaders.fs, ref): reading
\* `fs` of options.loaders throws when the options hold no loaders
FetchFromFile(f) ==
    IF ~f.loaders THEN FetchThrows(f, "TypeError")
    ELSE [f EXCEPT !.pc = "access", !.invoked = Append(@, "access")]

\* the indexes of the plugins whose result is truthy
Results(f) == {j \in 1..Len(f.plugins) : f.plugins[j] = "document"}

Least(S) == CHOOSE j \in S : \A k \in S : j <= k

\* a variant of FetchAfterPlugins: the file and the network are tried first
\* when the plugins disagree
FetchAfterPluginsLenient(f) ==
    IF \E j \in 1..Len(f.plugins) : f.plugins[j] = "rejects"
    THEN FetchThrows(f, "PluginError")
    ELSE IF Cardinality(Results(f)) = 1 THEN FetchReturns(f, "plugin")
    ELSE FetchFromFile(f)

\* after await Promise.all(plugins.map(...)): the forEach over the results
\* throws at the second truthy one, naming it and the first; one truthy
\* result is returned; without any the file is tried
FetchAfterPlugins(f) ==
    IF \E j \in 1..Len(f.plugins) : f.plugins[j] = "rejects"
    THEN FetchThrows(f, "PluginError")
    ELSE IF Cardinality(Results(f)) > 1
    THEN [FetchThrows(f, "MultiplePluginReturnError") EXCEPT
             !.names = <<Least(Results(f) \ {Least(Results(f))}), Least(Results(f))>>]
    ELSE IF Cardinality(Results(f)) = 1 THEN FetchReturns(f, "plugin")
    ELSE FetchFromFile(f)

\* a variant of FetchLocal: a pointer that cannot be evaluated is handed to
\* the plugins and loaders
FetchLocalFallsThrough(f) ==
    IF Evaluates(f.ref) THEN FetchCaches(f, "pointed")
    ELSE IF f.plugins # <<"undefined">>
    THEN [f EXCEPT !.pc = "plugins", !.invoked = Append(@, "plugins")]
    ELSE FetchFromFile(f)

\* ref[0] === "#": the pointer is parsed and evaluated inside try, the
\* cache is written after both
FetchLocal(f) ==
    IF Evaluates(f.ref) THEN FetchCaches(f, "pointed")
    ELSE FetchThrows(f, "InvalidJsonPointerRefError")

\* fetchRef up to its first await
FetchStart(f) ==
    IF f.refCache[f.ref] # "" THEN FetchReturns(f, f.refCache[f.ref])
    ELSE IF IsLocal(f.ref) THEN FetchLocal(f)
    ELSE IF f.plugins # <<"undefined">>
    THEN [f EXCEPT !.pc = "plugins", !.invoked = Append(@, "plugins")]
    ELSE FetchFromFile(f)

\* fetchRef(ref) is called on an instance: its refCache holds the ref or
\* not, its options hold plugins and loaders or not
FetchRefCalled ==
    /\ fetching.pc = "idle"
    /\ status = "init"
    /\ \E r \in FetchRefs, seeded \in BOOLEAN, ps \in PluginLists, ld \in BOOLEAN,
          rf \in BOOLEAN, fs \in FileStates, net \in RemoteStates :
          fetching' = FetchStart([NoFetch EXCEPT
                                     !.ref = r, !.seeded = seeded,
                                     !.refCache[r] = IF seeded THEN "cached" ELSE "",
                                     !.plugins = ps, !.loaders = ld, !.readFile = rf,
                                     !.fs = fs, !.net = net])
    /\ UNCHANGED <<heap, given, made, registry, cache, stack, status, result, error,
                   loaderCalls>>

\* the plugins' promises are settled
FetchPluginsSettled ==
    /\ fetching.pc = "plugins"
    /\ fetching' = FetchAfterPlugins(fetching)
    /\ UNCHANGED <<heap, given, made, registry, cache, stack, status, result, error,
                   loaderCalls>>

\* after await fileExistsAndReadable(...): readFile(ref) when the file is
\* there, where readFile is no binding of the module unless the build
\* supplies one; InvalidFileSystemPathError for a path; fetch(ref) otherwise
FetchAfterAccess(f) ==
    IF f.fs # "missing"
    THEN IF f.readFile THEN [f EXCEPT !.pc = "read", !.invoked = Append(@, "readFile")]
         ELSE FetchThrows(f, "ReferenceError")
    ELSE IF PathShaped(f.ref) THEN FetchThrows(f, "InvalidFileSystemPathError")
    ELSE [f EXCEPT !.pc = "remote", !.invoked = Append(@, "fetch")]

\* fs.access called back
FetchAccessed ==
    /\ fetching.pc = "access"
    /\ fetching' = FetchAfterAccess(fetching)
    /\ UNCHANGED <<heap, given, made, registry, cache, stack, status, result, error,
                   loaderCalls>>

\* after await readFile(ref): JSON.parse inside try
FetchAfterRead(f) ==
    IF f.fs = "garbage" THEN FetchThrows(f, "NonJsonRefError")
    ELSE FetchCaches(f, "file")

\* fs.readFile called back
FetchFileRead ==
    /\ fetching.pc = "read"
    /\ fetching' = FetchAfterRead(fetching)
    /\ UNCHANGED <<heap, given, made, registry, cache, stack, status, result, error,
                   loaderCalls>>

\* this.refCache[ref] = await rs, outside the try that surrounds
\* fetch(ref).then(...): a rejection of rs leaves fetchRef as it is
FetchAfterRemote(f) ==
    IF f.net = "json" THEN FetchCaches(f, "remote")
    ELSE FetchThrows(f, "FetchError")

\* the promise of fetch(ref).then((r) => r.json()) is settled
FetchRemoteSettled ==
    /\ fetching.pc = "remote"
    /\ fetching' = FetchAfterRemote(fetching)
    /\ UNCHANGED <<heap, given, made, registry, cache, stack, status, result, error,
                   loaderCalls>>

FetchNext ==
    \/ FetchRefCalled
    \/ FetchPluginsSettled
    \/ FetchAccessed
    \/ FetchFileRead
    \/ FetchRemoteSettled

\* one call of fetchRef
FetchSpec == Init /\ [][FetchNext]_vars

\* the options of a caller that supplies no protocolHandlerMap
PlainConfigs ==
    {[recursive |-> r, mutate |-> m, seed |-> ""] :
        r \in {Undefined, Bool("false")}, m \in BOOLEAN}

SessionNew == NewWith(HandlerDocs, PlainConfigs)

\* the Dereferencer with a protocolHandlerMap for the scheme is constructed
\* before the caller constructs its own
OtherConstructedFirst ==
    /\ status = "init"
    /\ registry # "other"
    /\ registry' = Registered(registry, "other")
    /\ UNCHANGED <<heap, given, made, cache, stack, status, result, error, loaderCalls,
                   fetching>>

SessionNext ==
    \/ SessionNew
    \/ Resolve
    \/ Run
    \/ OtherConstructedFirst
    \/ OtherConstructed

\* the specification of a process where a Dereferencer without a
\* protocolHandlerMap resolves, and another with one is constructed before
\* or after it
SessionSpec == Init /\ [][SessionNext]_vars

Done == status \in {"resolved", "failed"}

\* an instance never returns to an instance the model has forgotten
NoReturnToForgotten ==
    ~(Running /\ Len(stack) = 1 /\ ~Top.outermost /\ Top.pc = "return")

\* ------------------------------------------------------------------------
\* Positions, chains and targets
\* ------------------------------------------------------------------------

\* the slots <<object, key>> below root that hold an object
Positions(h, root) ==
    UNION {{<<adr, k>> : k \in {x \in SeqToSet(h[adr].keys) : IsObj(h[adr].val[x])}} :
              adr \in Reach(h, root)}

At(h, pos) == h[pos[1]].val[pos[2]]

\* the key paths from v to the objects below it; v is the root of a tree
RECURSIVE Paths(_, _)
Paths(h, v) ==
    IF ~IsObj(v) THEN {}
    ELSE UNION {{<<k>>} \cup {<<k>> \o p : p \in Paths(h, h[v.a].val[k])} :
                   k \in {x \in SeqToSet(h[v.a].keys) : IsObj(h[v.a].val[x])}}

\* a reference node with only the `$ref` key, naming r
IsPureRef(h, v, r) ==
    IsObj(v) /\ h[v.a].keys = <<"$ref">> /\ h[v.a].val["$ref"] = Str(r)

\* a reference node with sibling keys
IsSiblingRef(h, v) ==
    IsObj(v) /\ Get(h, v, "$ref").t = "string" /\ Len(h[v.a].keys) > 1

\* the positions of the document the outermost instance was constructed on
DocPaths == Paths(heap1, work)

\* the positions of the document that hold a pure reference node naming r
PureRefPaths(r) == {p \in DocPaths : IsPureRef(heap1, EvalPointer(heap1, work, p), r)}

\* what the returned document holds at a position, Undefined for none
Resolved(p) == EvalPointer(heap, result, p)

\* where a chain of pure refs that starts at ref r ends: at a pre-seeded
\* cache entry, at the root ("#"), at a file, or at the first node of the
\* document that is not a pure reference node; n bounds the length
RECURSIVE ChainEnd(_, _)
ChainEnd(r, n) ==
    IF cache0[r].t # "undefined" THEN [end |-> "seed", v |-> cache0[r], len |-> n]
    ELSE IF r = SelfRef THEN [end |-> "self", v |-> work, len |-> n]
    ELSE IF ~IsPointer(r) THEN [end |-> "file", v |-> Undefined, len |-> n]
    ELSE IF n = 0 THEN [end |-> "cycle", v |-> Undefined, len |-> n]
    ELSE LET t == EvalPointer(heap1, work, PointerPath(r))
         IN  IF \E r2 \in Refs : IsPureRef(heap1, t, r2)
             THEN ChainEnd(heap1[t.a].val["$ref"].s, n - 1)
             ELSE [end |-> "node", v |-> t, len |-> n]

Chain(r) == ChainEnd(r, Cardinality(Refs))

\* the number of refs the chain from r follows
ChainLength(r) == Cardinality(Refs) - Chain(r).len + 1

Recursive == options.recursive = Bool("true")

\* ------------------------------------------------------------------------
\* Properties
\* ------------------------------------------------------------------------

\* C1: with recursive mode enabled, no object reachable from the document
\* that a successful resolve() returns has a `$ref` key
C1_NoRefNodeInResult ==
    (status = "resolved" /\ Recursive) => ~HasRefNode(heap, result)

\* C2: resolve() eventually completes, Resolved or Failed, for every
\* document, also when its references form a cycle
C2_ResolveCompletes == (status = "resolving") ~> Done

\* C3: within one session the Loader is invoked at most once for each
\* distinct ref string
C3_LoaderAtMostOncePerRef == \A r \in Refs : loaderCalls[r] <= 1

\* the document of the cycle that closes through "#": the root is no
\* reference node, definitions.a is a pure ref to definitions.b, which is
\* a pure ref to "#"
CyclicThroughSelf ==
    /\ IsObj(work)
    /\ ~IsRefNode(heap1, work.a)
    /\ Chain(RefA).end = "self"
    /\ ChainLength(RefA) = 3

C4_PositionsHoldRoot ==
    (status = "resolved" /\ Recursive /\ CyclicThroughSelf) =>
        \A r \in Refs : Chain(r).end = "self" =>
            \A p \in PureRefPaths(r) : Resolved(p).t # "undefined" =>
                /\ Resolved(p) = result
                /\ result = work
                /\ Get(heap, Resolved(p), "title") = Get(heap1, work, "title")

\* C4: for the document whose cycle closes through "#", with every ref
\* resolvable, resolve() completes, and every position that reaches "#"
\* through a chain of pure refs holds the root document itself, so its
\* title is the root's own title
C4_CycleThroughSelfResolves ==
    /\ [](C4_PositionsHoldRoot)
    /\ (status = "resolving" /\ CyclicThroughSelf /\ file \notin {"missing", "bad"})
           ~> (status = "resolved")

C4_Witness ==
    /\ status = "resolved"
    /\ Recursive
    /\ CyclicThroughSelf
    /\ \E p \in PureRefPaths(RefA) :
          Resolved(p) = work /\ Get(heap, Resolved(p), "title") = Str("rewt")

Substituting == Running /\ Top.pc = "loop" /\ Top.i > Len(Top.unfetched)

\* a sub-instance is about to return to the instance that created it
Returning == Running /\ Len(stack) > 1 /\ Top.pc = "return"

\* the slots of the schema of the instance on top that hold a reference
\* node with sibling keys
SiblingSlots ==
    {pos \in Positions(heap, Top.schema) : IsSiblingRef(heap, At(heap, pos))}

TargetOf(node) == CacheGet(cache, Get(heap, node, "$ref"))

\* in the next state v is an object without `$ref` that holds every other
\* key of node with node's value and every further key of target with
\* target's value
MergedInto(v, node, target) ==
    /\ IsObj(v)
    /\ ~Has(heap', v, "$ref")
    /\ \A k \in SeqToSet(KeysOf(heap, node)) \ {"$ref"} :
          Has(heap', v, k) /\ Get(heap', v, k) = Get(heap, node, k)
    /\ \A k \in SeqToSet(KeysOf(heap', target)) \ SeqToSet(KeysOf(heap, node)) :
          Has(heap', v, k) /\ Get(heap', v, k) = Get(heap', target, k)

\* what every reference node with sibling keys is replaced by, when
\* TargetOk holds of its target
SiblingsMerge(TargetOk(_)) ==
    /\ (Substituting /\ ~Has(heap, Top.schema, "$ref")) =>
          \A pos \in SiblingSlots : TargetOk(TargetOf(At(heap, pos))) =>
              MergedInto(At(heap', pos), At(heap, pos), TargetOf(At(heap, pos)))
    /\ (Substituting /\ IsSiblingRef(heap, Top.schema) /\ TargetOk(TargetOf(Top.schema))) =>
          MergedInto(stack'[Len(stack)].schema, Top.schema, TargetOf(Top.schema))
    /\ (Returning /\ IsSiblingRef(heap, stack[Len(stack) - 1].fetched)
                  /\ TargetOk(Top.schema)) =>
          MergedInto(cache'[CurrentRef(stack[Len(stack) - 1])],
                     stack[Len(stack) - 1].fetched, Top.schema)

EndsAtNonRef(r) == Chain(r).end = "node" /\ ~Has(heap1, Chain(r).v, "$ref")

\* the root of the document is a reference node whose chain ends so
RootChain ==
    /\ IsObj(work)
    /\ Get(heap1, work, "$ref").t = "string"
    /\ Get(heap1, work, "$ref").s \in Refs
    /\ EndsAtNonRef(Get(heap1, work, "$ref").s)

\* the keys and values of an object, the pruned keys apart
Content(h, v) ==
    [k \in SeqToSet(KeysOf(h, v)) \ {"definitions", "components"} |-> Get(h, v, k)]

\* C7: with recursive mode enabled a chain of references is flattened: a
\* position holding the first pure ref holds the last, non-reference
\* target of the chain, and the result of a chain that starts at the root
\* holds the content of that target and no `definitions` key
C7_ChainsFlattened ==
    (status = "resolved" /\ Recursive) =>
        /\ \A r \in Refs : EndsAtNonRef(r) =>
              \A p \in PureRefPaths(r) : Resolved(p).t # "undefined" =>
                  Resolved(p) = Chain(r).v
        /\ RootChain =>
              LET last == Chain(Get(heap1, work, "$ref").s).v
              IN  IF IsObj(last)
                  THEN /\ ~Has(heap, result, "definitions")
                       /\ ~Has(heap, result, "$ref")
                       /\ Content(heap, result) = Content(heap, last)
                  ELSE result = last

C7_Witness ==
    /\ status = "resolved"
    /\ Recursive
    /\ \/ /\ RootChain
          /\ ChainLength(Get(heap1, work, "$ref").s) >= 2
          /\ Get(heap, result, "type") = Str("string")
       \/ \E r \in Refs :
             /\ EndsAtNonRef(r)
             /\ ChainLength(r) >= 2
             /\ \E p \in PureRefPaths(r) : IsObj(Resolved(p)) /\ Resolved(p) = Chain(r).v

RECURSIVE DeepEq(_, _, _, _)
DeepEq(h1, v1, h2, v2) ==
    IF IsObj(v1) /\ IsObj(v2)
    THEN /\ h1[v1.a].arr = h2[v2.a].arr
         /\ SeqToSet(h1[v1.a].keys) = SeqToSet(h2[v2.a].keys)
         /\ \A k \in SeqToSet(h1[v1.a].keys) :
               DeepEq(h1, h1[v1.a].val[k], h2, h2[v2.a].val[k])
    ELSE v1 = v2

\* the caller passed a document that contains no reference node
RefFree == status # "init" /\ ~HasRefNode(heap0, input)

\* C9 as stated: for a document without reference nodes the Loader is
\* never invoked and resolve() returns a document structurally equal to
\* the input as it was before the call, the same object under mutate = true
C9_RefFreeUnchanged ==
    RefFree =>
        /\ \A r \in Refs : loaderCalls[r] = 0
        /\ status = "resolved" =>
              /\ DeepEq(heap, result, heap0, input)
              /\ options.mutate => result = input

\* the keys of an object that resolve() does not delete at the root
KeptKeys(h, v) == SeqToSet(KeysOf(h, v)) \ {"definitions", "components"}

\* C9: for a document without reference nodes the Loader is never
\* invoked and resolve() returns a document structurally equal to the
\* input as it was before the call with its top-level `definitions` and
\* `components` keys removed, the same object under mutate = true
C9_RefFreeOnlyPruned ==
    RefFree =>
        /\ \A r \in Refs : loaderCalls[r] = 0
        /\ status = "resolved" =>
              /\ IsObj(result) = IsObj(input)
              /\ ~IsObj(input) => result = input
              /\ SeqToSet(KeysOf(heap, result)) = KeptKeys(heap0, input)
              /\ \A k \in KeptKeys(heap0, input) :
                    DeepEq(heap, Get(heap, result, k), heap0, Get(heap0, input, k))
              /\ options.mutate => result = input

C9_Witness ==
    /\ RefFree
    /\ status = "resolved"
    /\ Has(heap0, input, "definitions")
    /\ ~Has(heap, result, "definitions")
    /\ Has(heap, result, "oneOf")

C11_MutateReturnsInput ==
    (status = "resolved" /\ options.mutate /\ IsObj(input)) => result = input

\* C11: with mutate = true resolve() returns the very object that was
\* passed to the constructor, for every input that is an object and has
\* no `$ref` key itself
C11_MutateReturnsNonRefInput ==
    (status = "resolved" /\ options.mutate /\ IsObj(input)
        /\ ~Has(heap0, input, "$ref")) => result = input

C11_Witness ==
    /\ status = "resolved"
    /\ options.mutate
    /\ IsObj(input)
    /\ HasRefNode(heap0, input)
    /\ ~Has(heap0, input, "$ref")
    /\ result = input
    /\ heap[input.a] # heap0[input.a]

\* some node of the document has a `$ref` key whose value is no string
HasNonStringRef(h, v) ==
    \E adr \in Reach(h, v) :
        "$ref" \in SeqToSet(h[adr].keys) /\ h[adr].val["$ref"].t # "string"

\* C12: constructing a Dereferencer on a document with a node whose `$ref`
\* value is not a string fails with NonStringRefError, whatever the value
C12_NonStringRefRejected ==
    (status # "init" /\ HasNonStringRef(heap0, input))
        => (status = "failed" /\ error = "NonStringRefError")

\* some node of the document has a `$ref` key whose value is no string and
\* is truthy, the values collectRefs looks at the type of
HasRejectedRef(h, v) ==
    \E adr \in Reach(h, v) :
        /\ "$ref" \in SeqToSet(h[adr].keys)
        /\ h[adr].val["$ref"].t # "string"
        /\ Truthy(h[adr].val["$ref"])

NoLoaderCall == \A r \in Refs : loaderCalls[r] = 0

RaisesNonStringRef == status = "resolving" /\ error' = "NonStringRefError"

BooleanTarget(r) ==
    /\ r \in {RefA, RefB}
    /\ cache0[r].t = "undefined"
    /\ IsBool(EvalPointer(heap1, work, PointerPath(r)))

\* C14: a Boolean input is returned as it is, without a Loader call, and a
\* position holding a pure reference node whose target is a Boolean, the
\* root position included, holds that Boolean in the returned document
C14_BooleanUnchanged ==
    /\ (status # "init" /\ IsBool(input)) =>
          /\ status # "failed"
          /\ NoLoaderCall
          /\ status = "resolved" => result = input
    /\ status = "resolved" =>
          \A r \in Refs : BooleanTarget(r) =>
              /\ \A p \in PureRefPaths(r) : Resolved(p).t # "undefined" =>
                    Resolved(p) = EvalPointer(heap1, work, PointerPath(r))
              /\ Get(heap1, work, "$ref") = Str(r) =>
                    result = EvalPointer(heap1, work, PointerPath(r))

C14_Witness ==
    /\ status = "resolved"
    /\ \E r \in Refs :
          /\ BooleanTarget(r)
          /\ \E p \in PureRefPaths(r) : Resolved(p) = Bool("true")

\* the error the step of the instance on top raises, when it raises one:
\* the Loader's, or the one of collecting the refs of the fetched document
RaisedOnTop ==
    IF Top.pc = "await" THEN LoaderError(CurrentRef(Top)) ELSE "NonStringRefError"

\* C15: an error of a Loader call or of ref collection, at whatever depth
\* of nested sub-resolution it is raised, is the error the outermost
\* resolve() fails with, a failed resolve() returns no document, and the
\* error is not replaced as long as the caller does not resolve again
C15_ErrorsSurfaceUnchanged ==
    /\ [][(Running /\ Top.pc \in {"await", "fetched"} /\ status' = "failed")
             => (error' = RaisedOnTop /\ result' = Undefined)]_vars
    /\ [](status = "failed" => (result = Undefined /\ error # ""))
    /\ [][(status = "failed" /\ attempt' = attempt)
             => (status' = "failed" /\ error' = error)]_vars

C15_Witness ==
    /\ status = "failed"
    /\ error = "InvalidFileSystemPathError"
    /\ file = "missing"
    /\ loaderCalls[RefB] = 1
    /\ loaderCalls[RefFile] = 1
    /\ result = Undefined

\* the refs the refCache holds an entry for
Written(c) == {r \in Refs : c[r].t # "undefined"}

\* C16: a failing resolve() leaves the refCache as it is, and a later
\* resolve() of the document with that refCache keeps every entry that was
\* written before the failure and never calls the Loader for its ref
C16_CacheSurvivesFailure ==
    /\ [][(status = "resolving" /\ status' = "failed") => cache' = cache]_vars
    /\ [][attempt' # attempt => (cache0' = cache /\ cache' = cache)]_vars
    /\ [](attempt > 1 => \A r \in Written(cache0) :
                             cache[r] = cache0[r] /\ loaderCalls[r] = 0)

C16_Witness ==
    /\ attempt > 1
    /\ status = "resolved"
    /\ RefB \in Written(cache0)
    /\ loaderCalls[RefB] = 0
    /\ RefFile \notin Written(cache0)
    /\ loaderCalls[RefFile] = 1

\* the instance on top has "#" among its refs and has run its loop
EncounteredSelfRef ==
    Running /\ Top.pc = "return" /\ Contains(Top.refs, SelfRef)

\* no Loader call for "#"
SelfRefNeverLoaded == loaderCalls[SelfRef] = 0

\* no sub-Dereferencer is constructed over what "#" fetched
SelfRefNeverRecursed ==
    [][(Running /\ Top.pc = "fetched" /\ CurrentRef(Top) = SelfRef)
          => (stack' # <<>> /\ stack'[Len(stack')].pc = "loop")]_vars

\* C17: the ref "#" resolves to the root document of the instance that has
\* it among its refs, no Loader call is made for it and no sub-Dereferencer
\* is constructed over it
C17_SelfRefIsOwnRoot ==
    /\ [](EncounteredSelfRef => cache[SelfRef] = Top.root)
    /\ []SelfRefNeverLoaded
    /\ SelfRefNeverRecursed

\* the instance on top is a sub-Dereferencer over a fetched document that
\* declares its own identity, which made the document its root
OverIdentified ==
    /\ Running
    /\ ~Top.outermost
    /\ IsObj(Top.schema)
    /\ Truthy(Get(heap, Top.schema, "$id"))
    /\ Top.root = Top.schema

\* what the local pointer r denotes in the document of the instance on top
OwnTarget(r) == EvalPointer(heap, Top.schema, PointerPath(r))

\* C18: when the instance over a fetched document that declares its
\* identity has run its loop, every local pointer among its refs is
\* cached as what it denotes in that document
C18_IdentifiedDocumentIsRoot ==
    (OverIdentified /\ Top.pc = "return")
        => \A k \in 1..Len(Top.refs) :
               IsPointer(Top.refs[k]) => cache[Top.refs[k]] = OwnTarget(Top.refs[k])

ContainerKeys == {"definitions", "components"}

\* the object at adr loses a container key in this step
LosesContainer(adr) ==
    /\ adr <= Len(heap')
    /\ \E k \in ContainerKeys :
          k \in SeqToSet(heap[adr].keys) /\ k \notin SeqToSet(heap'[adr].keys)

LaterKey(x, k) ==
    IF earlier.how = "elements" /\ earlier.h[x.a].arr
    THEN Moved(earlier.h[x.a].keys, k)
    ELSE k

\* the pairs of values one step below the pairs P of corresponding values
Below(P) ==
    UNION {{<<earlier.h[p[1].a].val[k], heap[p[2].a].val[LaterKey(p[1], k)]>> :
               k \in {x \in SeqToSet(earlier.h[p[1].a].keys) :
                         LaterKey(p[1], x) \in SeqToSet(heap[p[2].a].keys)}} :
           p \in {q \in P : IsObj(q[1]) /\ IsObj(q[2])}}

\* the pairs of values at corresponding positions of the two results
RECURSIVE Corresponding(_)
Corresponding(P) ==
    IF Below(P) \subseteq P THEN P ELSE Corresponding(P \cup Below(P))

\* equal content at every pair of corresponding positions
SameContent(P) ==
    \A p \in P :
        IF IsObj(p[1]) /\ IsObj(p[2])
        THEN /\ earlier.h[p[1].a].arr = heap[p[2].a].arr
             /\ SeqToSet(earlier.h[p[1].a].keys) = SeqToSet(heap[p[2].a].keys)
        ELSE p[1] = p[2]

\* the same object at two positions of one result exactly when the
\* corresponding positions of the other hold the same object
SameSharing(P) ==
    \A p, q \in {x \in P : IsObj(x[1]) /\ IsObj(x[2])} :
        (p[1] = q[1]) <=> (p[2] = q[2])

\* both orders of the document have been resolved
BothResolved == status = "resolved" /\ earlier.how # ""

\* C20: the results for two documents that differ only in the order of
\* the array elements or of the keys are structurally equal position by
\* position and hold the same object at the same pairs of positions
C20_OrderIndependent ==
    BothResolved =>
        LET P == Corresponding({<<earlier.v, result>>})
        IN  SameContent(P) /\ SameSharing(P)

\* the outermost instance takes this step
OutermostStep == Running /\ Top.outermost /\ stack' # <<>> /\ stack'[Len(stack')].outermost

\* C21: with no rootSchema supplied by the caller, the root document of
\* every top-level instance constructed is its own document, also for an
\* options object passed to a constructor before, and what the instance
\* fetches for "#" or for a local pointer is what the ref denotes in that
\* document
C21_OwnDocumentIsRoot ==
    /\ [](status = "created" => Top.root = work)
    /\ [][(OutermostStep /\ Top.pc = "loop" /\ stack'[Len(stack')].pc = "fetched"
             /\ CurrentRef(Top) = SelfRef /\ ~Cached(cache, SelfRef))
            => stack'[Len(stack')].fetched = work]_vars
    /\ [][(OutermostStep /\ Top.pc = "await" /\ stack'[Len(stack')].pc = "fetched"
             /\ IsPointer(CurrentRef(Top)))
            => stack'[Len(stack')].fetched
                   = EvalPointer(heap, work, PointerPath(CurrentRef(Top)))]_vars

\* C21 for the first constructor an options object is passed to
C21_FirstUse ==
    /\ [](attempt = 1 => (status = "created" => Top.root = work))
    /\ [][(attempt = 1 /\ OutermostStep /\ Top.pc = "loop"
             /\ stack'[Len(stack')].pc = "fetched"
             /\ CurrentRef(Top) = SelfRef /\ ~Cached(cache, SelfRef))
            => stack'[Len(stack')].fetched = work]_vars
    /\ [][(attempt = 1 /\ OutermostStep /\ Top.pc = "await"
             /\ stack'[Len(stack')].pc = "fetched"
             /\ IsPointer(CurrentRef(Top)))
            => stack'[Len(stack')].fetched
                   = EvalPointer(heap, work, PointerPath(CurrentRef(Top)))]_vars

\* the callers of the model that pass recursive: false pass mutate: true
\* and no refCache; every other caller leaves the recursive option out
RecursiveLeftOut == status # "init" /\ (~options.mutate \/ cache0 # EmptyCache)

\* the distinct refs of the input document that are not "#" and that the
\* caller's refCache holds no entry for
UncachedRefs ==
    {r \in SeqToSet(collectRefs(heap1, work).refs) \ {SelfRef} : cache0[r].t = "undefined"}

\* what the Loader reads at RefFile
FileDocument == BuildFile(<<>>, file)

\* v is the document the Loader returned for r: the node of the document
\* the pointer names, or a new object with the content of the file
AsLoaderReturned(r, v) ==
    IF IsPointer(r) THEN v = EvalPointer(heap1, work, PointerPath(r))
    ELSE /\ IsObj(v)
         /\ v.a > Len(heap1)
         /\ DeepEq(heap, v, FileDocument.h, FileDocument.v)

HandlerReturned(name, r, v) ==
    /\ IsObj(v)
    /\ Get(heap, v, "title") = Str(r)
    /\ Get(heap, v, "type") = HandlerDocument(<<>>, r, name).h[1].val["type"]

\* the caller supplied a handler for the scheme
HandlerSupplied == status # "init" /\ options.protocolHandlerMap # ""

\* C23: when the caller supplied a handler for a scheme, every Loader call
\* of the session for a ref of that scheme returns what that handler
\* returns for the ref string, and every position of a pure reference node
\* naming such a ref holds a document that handler returned for it
C23_SuppliedHandlerResolves ==
    /\ [][(HandlerSupplied /\ Running /\ Top.pc = "await" /\ HasScheme(CurrentRef(Top)))
            => registry = options.protocolHandlerMap]_vars
    /\ []((HandlerSupplied /\ status = "resolved") =>
            \A r \in {x \in Refs : HasScheme(x)} : \A p \in PureRefPaths(r) :
                Resolved(p).t # "undefined"
                    => HandlerReturned(options.protocolHandlerMap, r, Resolved(p)))

\* the ref strings of the reference nodes below v in the order traverse
\* calls back, every occurrence listed
RECURSIVE Visit(_, _, _)
RECURSIVE VisitKeys(_, _, _, _)
Visit(h, v, path) ==
    IF ~IsObj(v) \/ v.a \in path THEN <<>>
    ELSE VisitKeys(h, v, h[v.a].keys, path \cup {v.a})
             \o (IF Get(h, v, "$ref").t = "string" THEN <<Get(h, v, "$ref").s>> ELSE <<>>)

VisitKeys(h, v, ks, path) ==
    IF ks = <<>> THEN <<>>
    ELSE Visit(h, Get(h, v, Head(ks)), path) \o VisitKeys(h, v, Tail(ks), path)

\* the first occurrence of every element of q, in the order of q
FirstOccurrences(q) ==
    LET first == {j \in 1..Len(q) : \A i \in 1..(j - 1) : q[i] # q[j]}
        RECURSIVE Take(_)
        Take(j) == IF j > Len(q) THEN <<>>
                   ELSE (IF j \in first THEN <<q[j]>> ELSE <<>>) \o Take(j + 1)
    IN  Take(1)

\* an instance has been constructed and has not run a step
Constructed == status \in {"created", "resolving"} /\ stack # <<>> /\ Top.pc = "start"

\* the values of the `$ref` keys the substitution pass of the instance on
\* top will look up
LookedUp ==
    {heap[adr].val["$ref"] : adr \in {x \in Reach(heap, Top.schema) : IsRefNode(heap, x)}}

\* C24: the refs of a constructed instance are the ref strings of the
\* reference nodes of its document, each once, in the order of first
\* discovery, and every `$ref` value the substitution pass will look up is
\* among them
C24_CollectsEveryRef ==
    Constructed =>
        /\ Top.refs = FirstOccurrences(Visit(heap, Top.schema, {}))
        /\ \A j, k \in 1..Len(Top.refs) : Top.refs[j] = Top.refs[k] => j = k
        /\ \A x \in LookedUp : x.t = "string" /\ Contains(Top.refs, x.s)

\* C24 for the documents whose `$ref` values are non-empty strings
C24_NonEmptyRefs ==
    (Constructed /\ \A x \in LookedUp : x.t = "string" /\ x.s # "") =>
        /\ Top.refs = FirstOccurrences(Visit(heap, Top.schema, {}))
        /\ \A j, k \in 1..Len(Top.refs) : Top.refs[j] = Top.refs[k] => j = k
        /\ \A x \in LookedUp : Contains(Top.refs, x.s)

\* C25: once the refCache holds an entry for a ref string, no step of the
\* session removes the entry or replaces it by another value
C25_EntriesNeverReplaced ==
    [][\A r \in Written(cache) : cache'[r] = cache[r]]_vars

\* the instance f has gone through all its unfetched refs and each of them
\* has its refCache entry
LoopCompleted(f) ==
    \/ IsBool(f.schema)
    \/ f.refs = <<>>
    \/ /\ f.i = Len(f.unfetched) + 1
       /\ \A k \in 1..Len(f.unfetched) : Cached(cache, f.unfetched[k])

\* C26: when the _resolve of an instance returns, the instance has been
\* through every ref it had to fetch, the Loader call and the nested
\* sub-resolution of each have returned and have written its refCache
\* entry; the instances below the running one are suspended awaiting it;
\* and when the outermost resolve() has completed no instance is left and
\* no step of the session is enabled any more
C26_NothingPendingAtCompletion ==
    /\ (Running /\ Top.pc = "return") => LoopCompleted(Top)
    /\ \A j \in 1..(Len(stack) - 1) : stack[j].pc = "awaitSub"
    /\ Done => (stack = <<>> /\ ~ENABLED Run)

C26_Witness ==
    /\ status = "resolved"
    /\ loaderCalls[RefFile] = 1
    /\ loaderCalls[RefB] = 1
    /\ file = "nest"
    /\ stack = <<>>
    /\ Written(cache) = {RefA, RefB, RefFile}

\* this step constructs a Dereferencer: the outermost one or a
\* sub-Dereferencer
Constructs ==
    \/ status = "init" /\ status' # "init"
    \/ Running /\ stack' # <<>> /\ stack'[Len(stack')].pc = "start"

\* this step calls the Loader
CallsLoader == loaderCalls' # loaderCalls

\* the refs of the instance that is on top after this step are the refs it
\* had before
RefsKept ==
    (stack' # <<>> /\ Len(stack') <= Len(stack) /\ stack'[Len(stack')].pc # "start")
        => stack'[Len(stack')].refs = stack[Len(stack')].refs

\* C27: no step that constructs a Dereferencer calls the Loader; the refs
\* of a constructed instance are the full list of the refs of its document
\* and stay as they are while the instance runs; and a Loader call is a
\* step of the loop of a started instance, for one of the refs collected
C27_CollectionPrecedesFetching ==
    /\ [][Constructs => ~CallsLoader]_vars
    /\ [](status = "created" => NoLoaderCall)
    /\ [](Constructed => Top.refs = FirstOccurrences(Visit(heap, Top.schema, {})))
    /\ [][Running => RefsKept]_vars
    /\ [][CallsLoader => /\ Running
                         /\ Top.pc = "loop"
                         /\ Contains(Top.refs, CurrentRef(Top))
                         /\ stack'[Len(stack')].refs = Top.refs]_vars

C27_Witness ==
    /\ Running
    /\ Top.pc = "await"
    /\ Top.i = 1
    /\ Len(Top.refs) >= 3
    /\ loaderCalls[CurrentRef(Top)] = 1
    /\ \A k \in 2..Len(Top.refs) : loaderCalls[Top.refs[k]] = 0

\* the instance at place j of the stack has found the ref it is at absent
\* and awaits the sub-resolution that precedes the write-back of its entry
AwaitsWriteBack(j) ==
    /\ stack[j].pc = "awaitSub"
    /\ ~Cached(cache, CurrentRef(stack[j]))

\* C28: while an instance that found a ref absent in the refCache has not
\* written the entry back, no instance nested in it has found the same ref
\* absent
C28_AbsentObservedOnce ==
    \A j, k \in 1..Len(stack) :
        (j < k /\ AwaitsWriteBack(j))
            => ~Contains(stack[k].unfetched, CurrentRef(stack[j]))

\* the node the local pointer r names in the document, an object that
\* contains no reference node, with no entry for r in the caller's refCache
RefFreeTarget(r) ==
    /\ r \in {RefA, RefB}
    /\ cache0[r].t = "undefined"
    /\ IsObj(EvalPointer(heap1, work, PointerPath(r)))
    /\ ~HasRefNode(heap1, EvalPointer(heap1, work, PointerPath(r)))

\* the objects of the document the instance was constructed on, and of the
\* document the caller passed
DocumentNodes == Reach(heap1, work) \cup Reach(heap0, input)

\* C29: in the returned document a position of a pure reference node whose
\* local pointer names a node without refs holds that very node of the
\* document, and a position of a pure reference node naming the file holds
\* an object that is no node of the input document
C29_AliasOrDistinct ==
    status = "resolved" =>
        /\ \A r \in Refs : RefFreeTarget(r) =>
              \A p \in PureRefPaths(r) : Resolved(p).t # "undefined" =>
                  Resolved(p) = EvalPointer(heap1, work, PointerPath(r))
        /\ \A p \in PureRefPaths(RefFile) : Resolved(p).t # "undefined" =>
              /\ IsObj(Resolved(p))
              /\ Resolved(p).a \notin DocumentNodes

\* ------------------------------------------------------------------------
\* C30
\* ------------------------------------------------------------------------

\* the reference nodes of the heap: the objects whose `$ref` is defined
ReferenceNodes == {Ptr(adr) : adr \in {x \in 1..Len(heap) : Get(heap, Ptr(x), "$ref").t # "undefined"}}

\* the values a reference node is merged with: what the cache holds, what
\* the running instance fetched, and the schema a sub-instance returns
ResolvedTargets ==
    {cache[r] : r \in Refs}
        \cup (IF Running THEN {Top.fetched, Top.schema} ELSE {})

\* the outcome m of a copyOrNot leaves every object there was as it was
LeavesObjects(m) == SubSeq(m.h, 1, Len(heap)) = heap

\* the outcome m of a copyOrNot is s2 itself and nothing was created
YieldsTarget(m, s2) == m = [h |-> heap, v |-> s2]

\* the outcome m of a copyOrNot is an object that did not exist before
YieldsFresh(m) == IsObj(m.v) /\ m.v.a = Len(heap) + 1 /\ Len(m.h) = Len(heap) + 1

\* C30 as stated: copyOrNot modifies neither the reference node nor the
\* resolved target; a node with only `$ref` yields the target itself and a
\* node with sibling keys yields a fresh object distinct from the target.
C30_SiblingsAlwaysFresh ==
    \A s1 \in ReferenceNodes : \A s2 \in ResolvedTargets :
        LET m == copyOrNot(heap, s1, s2)
        IN  /\ LeavesObjects(m)
            /\ Len(KeysOf(heap, s1)) = 1 => YieldsTarget(m, s2)
            /\ Len(KeysOf(heap, s1)) > 1 => YieldsFresh(m)

\* C30: copyOrNot modifies neither the reference node nor the resolved
\* target; a node with only `$ref` yields the target itself; a node with
\* sibling keys yields the target itself when the target is a Boolean and a
\* fresh object distinct from the target otherwise, so no object that
\* existed, the cached target included, acquires a sibling's keys.
C30_MergeIsPure ==
    \A s1 \in ReferenceNodes : \A s2 \in ResolvedTargets :
        LET m == copyOrNot(heap, s1, s2)
        IN  /\ LeavesObjects(m)
            /\ Len(KeysOf(heap, s1)) = 1 => YieldsTarget(m, s2)
            /\ (Len(KeysOf(heap, s1)) > 1 /\ IsBool(s2)) => YieldsTarget(m, s2)
            /\ (Len(KeysOf(heap, s1)) > 1 /\ ~IsBool(s2)) => YieldsFresh(m)

\* a resolved document where one ref string was named by a node with only
\* `$ref` and by a node with sibling keys: the first position holds the
\* cached target, the second an object that is not the target, and the
\* target holds none of the sibling's values
C30_Witness ==
    /\ status = "resolved"
    /\ \E r \in {RefA, RefB} : \E p, q \in DocPaths :
          /\ IsPureRef(heap1, EvalPointer(heap1, work, p), r)
          /\ IsObj(EvalPointer(heap1, work, q))
          /\ Get(heap1, EvalPointer(heap1, work, q), "$ref") = Str(r)
          /\ Len(KeysOf(heap1, EvalPointer(heap1, work, q))) > 1
          /\ IsObj(cache[r])
          /\ Resolved(p) = cache[r]
          /\ IsObj(Resolved(q))
          /\ Resolved(q) # cache[r]
          /\ Get(heap, Resolved(q), "title") # Get(heap, cache[r], "title")

\* ------------------------------------------------------------------------
\* C31
\* ------------------------------------------------------------------------

\* what a reference node with sibling keys whose resolved target is a
\* Boolean is replaced by: the Boolean
SiblingsDiscarded ==
    /\ (Substituting /\ ~Has(heap, Top.schema, "$ref")) =>
          \A pos \in SiblingSlots : IsBool(TargetOf(At(heap, pos))) =>
              At(heap', pos) = TargetOf(At(heap, pos))
    /\ (Substituting /\ IsSiblingRef(heap, Top.schema) /\ IsBool(TargetOf(Top.schema))) =>
          stack'[Len(stack)].schema = TargetOf(Top.schema)
    /\ (Returning /\ IsSiblingRef(heap, stack[Len(stack) - 1].fetched)
                  /\ IsBool(Top.schema)) =>
          cache'[CurrentRef(stack[Len(stack) - 1])] = Top.schema

PluginsReturned ==
    /\ fetching.pc \notin {"idle", "plugins"}
    /\ Contains(fetching.invoked, "plugins")
    /\ \A j \in 1..Len(fetching.plugins) : fetching.plugins[j] # "rejects"

\* fs.access, fs.readFile or fetch was called
LoaderInvoked ==
    \E x \in {"access", "readFile", "fetch"} : Contains(fetching.invoked, x)

\* C32: fetchRef calls the plugins before it looks for a file or fetches
\* from the network; when the plugins returned and exactly one of them
\* returned a result, fetchRef returns that result and neither the file nor
\* the network loader is called; when more than one returned a result,
\* fetchRef fails with MultiplePluginReturnError, naming two different
\* plugins that returned one, and again no loader is called
C32_PluginsBeforeLoaders ==
    /\ (LoaderInvoked /\ fetching.plugins # <<"undefined">>) =>
          fetching.invoked[1] = "plugins"
    /\ (PluginsReturned /\ Cardinality(Results(fetching)) = 1) =>
          /\ fetching.pc = "returned"
          /\ fetching.value = "plugin"
          /\ ~LoaderInvoked
    /\ (PluginsReturned /\ Cardinality(Results(fetching)) > 1) =>
          /\ fetching.pc = "failed"
          /\ fetching.error = "MultiplePluginReturnError"
          /\ Len(fetching.names) = 2
          /\ fetching.names[1] # fetching.names[2]
          /\ {fetching.names[1], fetching.names[2]} \subseteq Results(fetching)
          /\ ~LoaderInvoked

\* fetchRef failed for a ref that the second and the third of three
\* plugins returned a result for
C32_Witness ==
    /\ fetching.pc = "failed"
    /\ fetching.plugins = <<"nothing", "document", "document">>
    /\ fetching.error = "MultiplePluginReturnError"
    /\ fetching.names = <<3, 2>>
    /\ fetching.invoked = <<"plugins">>

\* ------------------------------------------------------------------------
\* C33
\* ------------------------------------------------------------------------

\* fetch(ref) was called for the URL and its promise rejected, or the
\* response was not parseable
RemoteFetchFailed ==
    /\ fetching.ref = RefUrl
    /\ Contains(fetching.invoked, "fetch")
    /\ fetching.pc # "remote"
    /\ fetching.net # "json"

\* C33: when the network fetch for a URL fails, fetchRef fails with
\* InvalidRemoteURLError and the refCache holds nothing for the ref
C33_RemoteFailureIsInvalidRemoteURL ==
    RemoteFetchFailed =>
        /\ fetching.pc = "failed"
        /\ fetching.error = "InvalidRemoteURLError"
        /\ fetching.refCache[fetching.ref] = ""

\* ------------------------------------------------------------------------
\* C34
\* ------------------------------------------------------------------------

\* fetchRef is over for a path that was not cached and that no plugin
\* answered or failed for
PathLeftToFile ==
    /\ fetching.pc \in {"returned", "failed"}
    /\ PathShaped(fetching.ref)
    /\ ~fetching.seeded
    /\ \/ fetching.plugins = <<"undefined">>
       \/ \A j \in 1..Len(fetching.plugins) : fetching.plugins[j] = "nothing"

\* C34: for a path that names no readable file fetchRef fails with
\* InvalidFileSystemPathError and fetch is not called; for a readable file
\* whose content is not parseable it fails with NonJsonRefError; in both
\* cases the refCache holds nothing for the ref
C34_FileFailures ==
    /\ (PathLeftToFile /\ fetching.fs = "missing") =>
          /\ fetching.pc = "failed"
          /\ fetching.error = "InvalidFileSystemPathError"
          /\ ~Contains(fetching.invoked, "fetch")
          /\ fetching.refCache[fetching.ref] = ""
    /\ (PathLeftToFile /\ fetching.fs = "garbage") =>
          /\ fetching.pc = "failed"
          /\ fetching.error = "NonJsonRefError"
          /\ fetching.refCache[fetching.ref] = ""

\* ------------------------------------------------------------------------
\* C35
\* ------------------------------------------------------------------------

\* fetchRef was called for a local pointer that is not cached and that
\* cannot be parsed or cannot be evaluated against the document
BadPointerCalled ==
    /\ fetching.pc # "idle"
    /\ IsLocal(fetching.ref)
    /\ ~Evaluates(fetching.ref)
    /\ ~fetching.seeded

\* C35: for a local pointer that is malformed or cannot be evaluated
\* fetchRef fails with InvalidJsonPointerRefError, the refCache holds
\* nothing for the ref, and neither a plugin nor fs.access, fs.readFile or
\* fetch is called
C35_BadPointerFailsAtOnce ==
    BadPointerCalled =>
        /\ fetching.pc = "failed"
        /\ fetching.error = "InvalidJsonPointerRefError"
        /\ fetching.refCache[fetching.ref] = ""
        /\ fetching.invoked = <<>>

\* fetchRef failed for a pointer to a key the document does not hold, with
\* plugins and loaders at hand that would have answered
C35_Witness ==
    /\ fetching.pc = "failed"
    /\ fetching.ref = RefMissing
    /\ fetching.plugins = <<"document">>
    /\ fetching.loaders
    /\ fetching.fs = "json"
    /\ fetching.net = "json"
    /\ fetching.error = "InvalidJsonPointerRefError"

\* ------------------------------------------------------------------------
\* C36
\* ------------------------------------------------------------------------

\* the nodes whose `$ref` the substitution pass of the instance on top
\* looks up: the schema itself when it is a reference node, every node
\* with a `$ref` that the traversal reaches otherwise
Replaced ==
    IF Get(heap, Top.schema, "$ref").t # "undefined" THEN {Top.schema}
    ELSE {Ptr(adr) : adr \in {x \in Reach(heap, Top.schema) :
                                 Get(heap, Ptr(x), "$ref").t # "undefined"}}

\* C36: when the substitution pass of an instance starts, the refCache
\* holds an entry for the `$ref` of every node the pass replaces, so no
\* position is set to undefined and no sibling keys are merged with an
\* absent target; the same holds of the schema a sub-instance returns for
\* the merge with the fetched node
C36_ReplacedRefsAreCached ==
    /\ Substituting => \A node \in Replaced : TargetOf(node).t # "undefined"
    /\ Returning => Top.schema.t # "undefined"

\* ------------------------------------------------------------------------
\* C37
\* ------------------------------------------------------------------------

\* C37: when resolve() has failed every node of the caller's input
\* document holds the keys and values it held when the document was
\* passed: no reference node was substituted and no key was removed
C37_FailureLeavesInput ==
    status = "failed" =>
        \A adr \in Reach(heap0, input) : heap[adr] = heap0[adr]

\* ------------------------------------------------------------------------
\* C38
\* ------------------------------------------------------------------------

\* the caller constructed its Dereferencer without a handler for the scheme
NoHandlerSupplied == status # "init" /\ options.protocolHandlerMap = ""

\* C38: in a session whose Dereferencer was constructed without a handler
\* for the scheme, no Loader call for a ref of the scheme finds a handler
\* that another Dereferencer registered, whether that one was constructed
\* before or after, and no position of the resolved document holds what
\* such a handler returns
C38_SessionsIndependent ==
    /\ (NoHandlerSupplied /\ Running /\ Top.pc = "await" /\ HasScheme(CurrentRef(Top)))
          => registry = ""
    /\ (NoHandlerSupplied /\ status = "resolved") =>
          \A r \in {x \in Refs : HasScheme(x)} : \A p \in PureRefPaths(r) :
              ~HandlerReturned("other", r, Resolved(p))

====
